---- MODULE Spec2Model ----
(***************************************************************************)
(* King James School authentication / attendance system (src/main.py).     *)
(*                                                                         *)
(* The model follows the SchoolAuthSystem class: one sqlite3 connection    *)
(* (legacy transaction control: an INSERT/UPDATE/DELETE implicitly opens a *)
(* transaction that stays open until commit(), there is no rollback()      *)
(* anywhere in the program), the Tk callbacks that read and write the four *)
(* tables, and the start-up / shut-down path.                              *)
(*                                                                         *)
(* Text is modelled as a sequence of one-character strings, so that the    *)
(* regular expressions, int(), strip(), strftime() and LIKE are computed   *)
(* character by character as the program computes them.                    *)
(***************************************************************************)
EXTENDS Integers, Sequences, FiniteSets, Bags, TLC

(***************************************************************************)
(* Bounds of the model.                                                    *)
(***************************************************************************)
FirstDay == 9      \* day of the month on which the process is started
MaxDay == 10       \* last day of the month the clock reaches
MaxSec == 0        \* last second-of-day the clock reaches
MaxAtt == 2        \* attendance rows ever inserted (AUTOINCREMENT counter)
MaxAdminOps == 2   \* registrations and deletions run in one process
MaxEvents == 1      \* storage faults and clock advances in one run
MaxWin == 1        \* "Manage Students" windows that a run opens

(***************************************************************************)
(* Characters.                                                             *)
(***************************************************************************)
Digits == {"0", "1", "2", "3", "4", "5", "6", "7", "8", "9"}

Upper == {"A", "B", "C", "D", "E", "F", "G", "H", "I", "J", "K", "L", "M",
          "N", "O", "P", "Q", "R", "S", "T", "U", "V", "W", "X", "Y", "Z"}

Lower == {"a", "b", "c", "d", "e", "f", "g", "h", "i", "j", "k", "l", "m",
          "n", "o", "p", "q", "r", "s", "t", "u", "v", "w", "x", "y", "z"}

Whitespace == {" ", "\n"}

\* The decimal digits of Unicode (category Nd), which are what \d of a str
\* pattern matches and what int() reads: the ASCII digits and, standing for
\* all the others, ARABIC-INDIC DIGIT THREE.
ArabicIndicThree == "U+0663"

DecimalDigits == Digits \cup {ArabicIndicThree}

DigitVal(c) ==
    CASE c = "0" -> 0 [] c = "1" -> 1 [] c = "2" -> 2 [] c = "3" -> 3
      [] c = "4" -> 4 [] c = "5" -> 5 [] c = "6" -> 6 [] c = "7" -> 7
      [] c = "8" -> 8 [] c = "9" -> 9 [] c = ArabicIndicThree -> 3

DigitChar(n) ==
    CASE n = 0 -> "0" [] n = 1 -> "1" [] n = 2 -> "2" [] n = 3 -> "3"
      [] n = 4 -> "4" [] n = 5 -> "5" [] n = 6 -> "6" [] n = 7 -> "7"
      [] n = 8 -> "8" [] n = 9 -> "9"

\* Code point order of the characters that occur in a timestamp: the space
\* sorts before every digit (SQLite compares TEXT with memcmp).
CharCode(c) == IF c \in Digits THEN 48 + DigitVal(c) ELSE 32

RECURSIVE StrLess(_, _)
StrLess(a, b) ==
    IF b = <<>> THEN FALSE
    ELSE IF a = <<>> THEN TRUE
    ELSE IF Head(a) = Head(b) THEN StrLess(Tail(a), Tail(b))
    ELSE CharCode(Head(a)) < CharCode(Head(b))

\* str.strip(): drop leading and trailing whitespace.
RECURSIVE LStrip(_)
LStrip(s) ==
    IF s # <<>> /\ Head(s) \in Whitespace THEN LStrip(Tail(s)) ELSE s

RECURSIVE RStrip(_)
RStrip(s) ==
    IF s # <<>> /\ s[Len(s)] \in Whitespace
    THEN RStrip(SubSeq(s, 1, Len(s) - 1)) ELSE s

Strip(s) == RStrip(LStrip(s))

AllIn(s, S) == \A i \in 1..Len(s) : s[i] \in S

(***************************************************************************)
(* Validators and password hashing.                                        *)
(***************************************************************************)
\* Where $ of a pattern can match: at the end of the text and, when the
\* text ends in a newline, just before that newline.  The operator gives
\* the texts that may have to match the part of the pattern before $.
DollarEnds(s) ==
    {s} \cup IF s # <<>> /\ s[Len(s)] = "\n"
             THEN {SubSeq(s, 1, Len(s) - 1)}
             ELSE {}

\* re.match(r'^KJ\d{4}\d{4}$', student_id)
validate_student_id(s) ==
    \E t \in DollarEnds(s) :
        /\ Len(t) = 10
        /\ t[1] = "K"
        /\ t[2] = "J"
        /\ AllIn(SubSeq(t, 3, 10), DecimalDigits)

\* re.match(r'^TJ\d{4}\d{4}$', teacher_id)
validate_teacher_id(s) ==
    \E t \in DollarEnds(s) :
        /\ Len(t) = 10
        /\ t[1] = "T"
        /\ t[2] = "J"
        /\ AllIn(SubSeq(t, 3, 10), DecimalDigits)

\* re.match(r'^[A-Za-z\s]+$', name.strip())
validate_name(s) ==
    /\ Strip(s) # <<>>
    /\ AllIn(Strip(s), Upper \cup Lower \cup Whitespace)

valid_classes ==
    { <<"7", "A">>, <<"7", "B">>, <<"7", "C">>,
      <<"8", "A">>, <<"8", "B">>, <<"8", "C">>,
      <<"9", "A">>, <<"9", "B">>, <<"9", "C">>,
      <<"1", "0", "A">>, <<"1", "0", "B">>, <<"1", "0", "C">>,
      <<"1", "1", "A">>, <<"1", "1", "B">>, <<"1", "1", "C">>,
      <<"1", "2", "A">>, <<"1", "2", "B">>, <<"1", "3", "A">> }

\* hashlib.sha256(password.encode()).hexdigest(): a digest is a value of its
\* own kind, never equal to a clear text, and equal for equal passwords.
hash_password(p) == <<"sha256">> \o p

\* int(text): an optional sign followed by decimal digits, which single
\* underscores may separate, gives the integer; anything else raises
\* ValueError (ok = FALSE).
RECURSIVE DigitsValue(_, _)
DigitsValue(s, acc) ==
    IF s = <<>> THEN acc
    ELSE DigitsValue(Tail(s), 10 * acc + DigitVal(Head(s)))

RECURSIVE DigitGroups(_)
DigitGroups(s) ==
    /\ s # <<>>
    /\ Head(s) \in DecimalDigits
    /\ \/ Len(s) = 1
       \/ s[2] = "_" /\ DigitGroups(SubSeq(s, 3, Len(s)))
       \/ s[2] # "_" /\ DigitGroups(Tail(s))

ParseInt(s) ==
    LET body == IF s # <<>> /\ Head(s) \in {"+", "-"} THEN Tail(s) ELSE s
        digits == SelectSeq(body, LAMBDA c : c # "_")
    IN  IF ~DigitGroups(body)
        THEN [ok |-> FALSE, value |-> 0]
        ELSE IF Head(s) = "-"
             THEN [ok |-> TRUE, value |-> 0 - DigitsValue(digits, 0)]
             ELSE [ok |-> TRUE, value |-> DigitsValue(digits, 0)]

\* The age check of the login and registration forms, on the result of
\* int(age): ValueError, or a value outside 11..18, is "Age must be 11-18".
age_in_range_UpperExclusive(n) ==
    n.ok /\ 11 <= n.value /\ n.value < 18

age_in_range(n) ==
    n.ok /\ 11 <= n.value /\ n.value <= 18

(***************************************************************************)
(* The clock and strftime.  A timestamp "%Y-%m-%d %H:%M:%S" is modelled    *)
(* within one month and one minute: the zero-padded day of the month, a    *)
(* space and the second.  date.today().strftime("%Y-%m-%d") is the         *)
(* zero-padded day.                                                        *)
(***************************************************************************)
Times == [day : FirstDay..MaxDay, sec : 0..MaxSec]

StartTime == [day |-> FirstDay, sec |-> 0]

\* The instants a later datetime.now() of the same callback can return: the
\* same second or the next one.
LaterReads(t) ==
    {t} \cup (IF t.sec < MaxSec THEN {[t EXCEPT !.sec = t.sec + 1]} ELSE {})
        \cup (IF t.sec = MaxSec /\ t.day < MaxDay
              THEN {[day |-> t.day + 1, sec |-> 0]} ELSE {})

strftime_date(t) == <<DigitChar(t.day \div 10), DigitChar(t.day % 10)>>

strftime(t) == strftime_date(t) \o <<" ", DigitChar(t.sec)>>

\* The calendar date of a stored timestamp text.
DateOf(ts) == SubSeq(ts, 1, 2)

(***************************************************************************)
(* SQL LIKE: % matches any run of characters, _ any single character.      *)
(* (LIKE folds ASCII case; a timestamp holds no letters.)                  *)
(***************************************************************************)
RECURSIVE Like(_, _)
Like(text, pat) ==
    IF pat = <<>> THEN text = <<>>
    ELSE IF Head(pat) = "%"
         THEN Like(text, Tail(pat)) \/ (text # <<>> /\ Like(Tail(text), pat))
    ELSE IF text = <<>> THEN FALSE
    ELSE /\ (Head(pat) = "_" \/ Head(pat) = Head(text))
         /\ Like(Tail(text), Tail(pat))

(***************************************************************************)
(* Input texts of the forms.                                               *)
(***************************************************************************)
ID1 == <<"K", "J", "2", "0", "2", "4", "0", "0", "0", "1">>
ID2 == <<"K", "J", "2", "0", "2", "4", "0", "0", "0", "2">>
IDShort == <<"K", "J", "2", "0", "2", "4", "0", "0", "1">>
TID1 == <<"T", "J", "2", "0", "2", "4", "0", "0", "0", "1">>
TIDLower == <<"t", "j", "2", "0", "2", "4", "0", "0", "0", "1">>
Ann == <<"A", "n", "n">>
Bob == <<"B", "o", "b">>
BadName == <<"A", "1">>
Class7A == <<"7", "A">>
Class13A == <<"1", "3", "A">>
ClassZZ == <<"Z", "Z">>
Pw1 == <<"p">>
Pw2 == <<"q">>
Pw1Padded == <<"p", " ">>
Empty == <<>>
AdminDefaultPw == <<"a", "d", "m", "i", "n", "1", "2", "3">>
TeacherDefaultPw == <<"t", "e", "a", "c", "h", "e", "r", "1", "2", "3">>

StudentIdTexts == {ID1, ID2, IDShort}
NameTexts == {Ann, Bob, BadName}
AgeTexts ==
    { <<"1", "1">>, <<"1", "8">>, <<"1", "0">>, <<"1", "9">>, <<"x">>,
      <<"+", "1", "1">>, <<"1", "_", "1">>, <<"1", ".", "5">> }
ClassTexts == {Class7A, Class13A, ClassZZ}
PasswordTexts == {Pw1, Pw2, Pw1Padded, Empty}

StudentForm(i, n, a, c, p) ==
    [student_id |-> i, name |-> n, age |-> a, class_name |-> c, password |-> p]

\* The submission with which the student of the earlier run was registered.
EarlierForm == StudentForm(ID1, Ann, <<"1", "1">>, Class7A, Pw1)

\* Submissions that pass every check of register_student.
GoodForms ==
    { EarlierForm,
      StudentForm(ID2, Bob, <<"1", "8">>, Class13A, Pw2),
      StudentForm(ID2, Bob, <<"1", "8">>, ClassZZ, Pw1Padded) }

\* What the administrator submits to "Register Student".
RegisterForms ==
    GoodForms \cup
    { StudentForm(IDShort, Ann, <<"1", "1">>, Class7A, Pw1),
      StudentForm(ID1, BadName, <<"1", "1">>, Class7A, Pw1),
      StudentForm(ID1, Ann, <<"1", "0">>, Class7A, Pw1),
      StudentForm(ID1, Ann, <<"1", "9">>, Class7A, Pw1),
      StudentForm(ID1, Ann, <<"x">>, Class7A, Pw1),
      StudentForm(ID2, Bob, <<"x">>, ClassZZ, Pw1),
      StudentForm(ID2, Bob, <<"1", "0">>, ClassZZ, Pw1),
      StudentForm(ID2, Bob, <<"1", "9">>, ClassZZ, Pw1),
      StudentForm(ID2, Bob, <<"+", "1", "8">>, ClassZZ, Pw1),
      StudentForm(ID1, Ann, <<"1", "1">>, Class7A, Empty) }

\* What is typed into the student login form: a registered submission, or
\* one with a single field replaced.
OneFieldReplaced(g) ==
    {[g EXCEPT !.student_id = x] : x \in StudentIdTexts}
    \cup {[g EXCEPT !.name = x] : x \in NameTexts}
    \cup {[g EXCEPT !.age = x] : x \in AgeTexts}
    \cup {[g EXCEPT !.class_name = x] : x \in ClassTexts}
    \cup {[g EXCEPT !.password = x] : x \in PasswordTexts}

LoginForms == GoodForms \cup OneFieldReplaced(EarlierForm)

TeacherForm(i, n, p) == [teacher_id |-> i, name |-> n, password |-> p]

\* What the administrator submits to "Register Teacher".
RegisterTeacherForms ==
    { TeacherForm(TID1, Ann, Pw1), TeacherForm(TIDLower, Ann, Pw1),
      TeacherForm(TID1, BadName, Pw1), TeacherForm(TID1, Ann, Empty) }

\* What is typed into the teacher login form.
TeacherForms ==
    RegisterTeacherForms \cup
    { TeacherForm(TID1, Bob, Pw1), TeacherForm(TID1, Ann, Pw2) }

AdminPasswords == {AdminDefaultPw, Pw1, Empty}

\* Texts typed into the date box of the attendance history window; the
\* empty text stands for "today".
DateTexts ==
    { Empty, <<"1", "0">>, <<"1">>, <<"%">>, <<"_", "9">> }

(***************************************************************************)
(* The database: the connection's view (db) and the committed file (disk). *)
(***************************************************************************)
NULL == <<>>

AllTables == <<"students", "attendance", "teachers", "admin_logs">>

TableSet(k) == {AllTables[i] : i \in 1..k}

\* nmut is a history counter kept with the data: the number of admin
\* mutations (student or teacher row inserted, student row deleted) that the
\* data reflects.
EmptyDb ==
    [students |-> <<>>, attendance |-> <<>>, att_seq |-> 0,
     teachers |-> <<>>, admin_logs |-> <<>>, log_seq |-> 0, nmut |-> 0]

Restrict(f, S) == [x \in S |-> f[x]]

\* A database file left by an earlier run of the program, in which the
\* administrator registered one teacher and one student.
EarlierTime == strftime([day |-> FirstDay - 1, sec |-> 0])

EarlierDb ==
    [students |->
        ID1 :> [name |-> Ann, age |-> 11, class_name |-> Class7A,
                password_hash |-> hash_password(Pw1),
                created_at |-> EarlierTime, last_login |-> NULL],
     attendance |-> <<>>, att_seq |-> 0,
     teachers |->
        TID1 :> [name |-> Ann, password_hash |-> hash_password(Pw1),
                 created_at |-> EarlierTime],
     admin_logs |->
        << [id |-> 1, action |-> "Register Teacher",
            details |-> [text |-> "Registered teacher", id |-> TID1],
            timestamp |-> EarlierTime],
           [id |-> 2, action |-> "Register Student",
            details |-> [text |-> "Registered student", id |-> ID1],
            timestamp |-> EarlierTime] >>,
     log_seq |-> 2, nmut |-> 2]

(***************************************************************************)
(* SQL statements of the callbacks and their effect on the connection's    *)
(* view.  A state st is [db, disk].                                        *)
(***************************************************************************)
StmtTable(s) ==
    CASE s.op \in {"SELECT_STUDENT", "SELECT_STUDENTS", "INSERT_STUDENT",
                   "UPDATE_LAST_LOGIN", "DELETE_STUDENT"} -> "students"
      [] s.op \in {"SELECT_ATTENDANCE", "INSERT_ATTENDANCE",
                   "DELETE_ATTENDANCE"} -> "attendance"
      [] s.op \in {"SELECT_TEACHER", "INSERT_TEACHER"} -> "teachers"
      [] s.op = "INSERT_LOG" -> "admin_logs"
      [] OTHER -> "none"

\* Mutant of ViolatesConstraint: students has no PRIMARY KEY.
ViolatesConstraint_NoStudentKey(d, s) ==
    CASE s.op = "INSERT_STUDENT" -> ~(s.row.age >= 11 /\ s.row.age <= 18)
      [] s.op = "INSERT_TEACHER" -> s.teacher_id \in DOMAIN d.teachers
      [] OTHER -> FALSE

\* A constraint of the schema that the statement violates: the PRIMARY KEY
\* of students and teachers, the CHECK on age.
ViolatesConstraint(d, s) ==
    CASE s.op = "INSERT_STUDENT" ->
            \/ s.student_id \in DOMAIN d.students
            \/ ~(s.row.age >= 11 /\ s.row.age <= 18)
      [] s.op = "INSERT_TEACHER" -> s.teacher_id \in DOMAIN d.teachers
      [] OTHER -> FALSE

\* Mutant of DeleteAttendance: the attendance rows are left in place.
DeleteAttendance_KeepsRows(att, student_id) == att

\* DELETE FROM attendance WHERE student_id = ?
DeleteAttendance(att, student_id) ==
    LET keep(r) == r.student_id # student_id
    IN  SelectSeq(att, keep)

ApplyDb(d, s) ==
    CASE s.op = "INSERT_STUDENT" ->
            [d EXCEPT !.students = @ @@ (s.student_id :> s.row),
                      !.nmut = @ + 1]
      [] s.op = "UPDATE_LAST_LOGIN" ->
            IF s.student_id \in DOMAIN d.students
            THEN [d EXCEPT !.students[s.student_id].last_login = s.time]
            ELSE d
      [] s.op = "INSERT_ATTENDANCE" ->
            [d EXCEPT !.attendance = Append(@, [id |-> d.att_seq + 1] @@ s.row),
                      !.att_seq = @ + 1]
      [] s.op = "DELETE_STUDENT" ->
            IF s.student_id \in DOMAIN d.students
            THEN [d EXCEPT !.students =
                              Restrict(@, DOMAIN @ \ {s.student_id}),
                           !.nmut = @ + 1]
            ELSE d
      [] s.op = "DELETE_ATTENDANCE" ->
            [d EXCEPT !.attendance = DeleteAttendance(@, s.student_id)]
      [] s.op = "INSERT_TEACHER" ->
            [d EXCEPT !.teachers = @ @@ (s.teacher_id :> s.row),
                      !.nmut = @ + 1]
      [] s.op = "INSERT_LOG" ->
            [d EXCEPT !.admin_logs = Append(@, [id |-> d.log_seq + 1] @@ s.row),
                      !.log_seq = @ + 1]
      [] OTHER -> d

\* conn.commit() writes the connection's view to the file.
Apply(st, s) ==
    IF s.op = "COMMIT" THEN [db |-> st.db, disk |-> st.db]
    ELSE [db |-> ApplyDb(st.db, s), disk |-> st.disk]

RECURSIVE RunTo(_, _, _)
RunTo(st, script, k) ==
    IF k = 0 THEN st ELSE Apply(RunTo(st, script, k - 1), script[k])

\* The error, if any, that statement k raises by itself in the state the
\* statements before it have produced.
StmtError(st, script, k, tbls) ==
    LET before == RunTo(st, script, k - 1)
    IN  IF StmtTable(script[k]) # "none" /\ StmtTable(script[k]) \notin tbls
        THEN "OperationalError"
        ELSE IF ViolatesConstraint(before.db, script[k])
        THEN "IntegrityError"
        ELSE "none"

FirstError(st, script, tbls) ==
    LET bad == {k \in 1..Len(script) : StmtError(st, script, k, tbls) # "none"}
    IN  IF bad = {} THEN 0
        ELSE CHOOSE k \in bad : \A j \in bad : k <= j

\* The ways a script can end: it runs through (at = 0); a statement raises
\* the error it must raise; or, while the error budget lasts, the storage
\* layer fails at a statement that would otherwise have run (disk full,
\* database locked, I/O error).  A storage failure aborts the statement and
\* either leaves the open transaction as it is or rolls it back.
Endings(st, script, tbls, budget) ==
    LET k0 == FirstError(st, script, tbls)
        lim == IF k0 = 0 THEN Len(script) ELSE k0 - 1
        own == IF k0 = 0
               THEN {[at |-> 0, error |-> "none", injected |-> FALSE,
                      st |-> RunTo(st, script, Len(script))]}
               ELSE {[at |-> k0, error |-> StmtError(st, script, k0, tbls),
                      injected |-> FALSE, st |-> RunTo(st, script, k0 - 1)]}
        inj == IF budget
               THEN UNION { { [at |-> k, error |-> "OperationalError",
                               injected |-> TRUE,
                               st |-> RunTo(st, script, k - 1)],
                              [at |-> k, error |-> "OperationalError",
                               injected |-> TRUE,
                               st |-> [db |-> RunTo(st, script, k - 1).disk,
                                       disk |-> RunTo(st, script, k - 1).disk]] }
                            : k \in 1..lim }
               ELSE {}
    IN  own \cup inj

(***************************************************************************)
(* State.                                                                  *)
(***************************************************************************)
VARIABLES
    pc,            \* "start", "loading", "constructed", "mainloop", "exited"
    conn,          \* self.conn: "none", "open", "closed"
    tables,        \* the tables that exist in the database file
    db,            \* the data as the connection sees it (open transaction included)
    disk,          \* the committed data
    config,        \* self.config
    quitMainLoop,  \* Tk's quit flag, set by root.quit()
    initFailed,    \* setup_database took its except branch
    clock,         \* the wall clock
    events,        \* storage faults and clock advances so far
    adminOps,      \* registrations and deletions run so far
    teacherPanel,  \* a Teacher Management Panel is open
    adminPanel,    \* an Admin Functions window is open
    trees,         \* the trees of the open Manage Students windows: a bag of
                   \* sets of student ids
    last           \* what the most recent callback reported and logged

vars ==
    <<pc, conn, tables, db, disk, config, quitMainLoop, initFailed, clock,
      events, adminOps, teacherPanel, adminPanel, trees, last>>

NoRows == <<>>

Report(op, outcome, logged) ==
    [op |-> op, outcome |-> outcome, logged |-> logged,
     text |-> Empty, rows |-> NoRows]

default_config ==
    [admin_password |-> hash_password(AdminDefaultPw),
     teacher_password |-> hash_password(TeacherDefaultPw)]

\* self.config when config.json held a document without the keys of a
\* configuration (a JSON list, string or number, or the object {}), and
\* before load_config has run.
NoConfig == <<>>

\* What json.load returns for the kinds of config.json, other than the
\* default that load_config writes when the file is absent.
ConfigOf(doc) ==
    CASE doc = "object" ->
            [admin_password |-> hash_password(Pw1),
             teacher_password |-> hash_password(Pw1)]
      [] doc = "no_admin_key" ->
            [teacher_password |-> hash_password(TeacherDefaultPw)]
      [] doc = "not_object" -> NoConfig

\* Kinds of config.json found at start-up.  "unreadable": open() or
\* json.load raises something other than JSONDecodeError (OSError,
\* UnicodeDecodeError).
ConfigDocs ==
    {"absent", "object", "unparseable", "not_object", "no_admin_key",
     "unreadable"}

\* The program in its main loop, started on the database file that an
\* earlier run has left.
Init ==
    /\ pc = "mainloop"
    /\ conn = "open"
    /\ tables = TableSet(Len(AllTables))
    /\ disk = EarlierDb
    /\ db = disk
    /\ config = default_config
    /\ quitMainLoop = FALSE
    /\ initFailed = FALSE
    /\ clock = StartTime
    /\ events = 0
    /\ adminOps = 0
    /\ teacherPanel = FALSE
    /\ adminPanel = FALSE
    /\ trees = EmptyBag
    /\ last = Report("none", "none", "none")

\* The process before SchoolAuthSystem() is called, on no database file or
\* on the file of an earlier run.
InitStartup ==
    /\ pc = "start"
    /\ conn = "none"
    /\ \/ tables = {} /\ disk = EmptyDb
       \/ tables = TableSet(Len(AllTables)) /\ disk = EarlierDb
    /\ db = disk
    /\ config = NoConfig
    /\ quitMainLoop = FALSE
    /\ initFailed = FALSE
    /\ clock = StartTime
    /\ events = 0
    /\ adminOps = 0
    /\ teacherPanel = FALSE
    /\ adminPanel = FALSE
    /\ trees = EmptyBag
    /\ last = Report("none", "none", "none")

St == [db |-> db, disk |-> disk]

Budget == events < MaxEvents

\* What a second datetime.now() of one callback can return.
Reads == IF Budget THEN LaterReads(clock) ELSE {clock}

\* The callback has met the storage fault of ending e, if it is one, and has
\* read the clock last at t.
Spend(e, t) ==
    /\ clock' = t
    /\ events' = events + (IF e.injected THEN 1 ELSE 0)
                        + (IF t # clock THEN 1 ELSE 0)
    /\ events' <= MaxEvents

(***************************************************************************)
(* Start-up and shut-down.                                                 *)
(***************************************************************************)
\* SchoolAuthSystem.__init__ under the try of __main__, up to the return of
\* setup_database: sqlite3.connect, setup_database.  failAt = 0: every CREATE TABLE
\* runs; failAt = k: the k-th CREATE TABLE raises sqlite3.Error, which
\* setup_database catches, logs and answers with root.quit().
Construct ==
    /\ pc = "start"
    /\ \/ /\ pc' = "exited"
          /\ last' = Report("__main__", "failed_to_start", "error")
          /\ UNCHANGED <<conn, tables, initFailed, quitMainLoop>>
       \/ /\ conn' = "open"
          /\ pc' = "loading"
          /\ \E failAt \in 0..Len(AllTables) :
                IF failAt = 0
                THEN /\ tables' = tables \cup TableSet(Len(AllTables))
                     /\ last' = Report("setup_database", "success", "info")
                     /\ UNCHANGED <<initFailed, quitMainLoop>>
                ELSE /\ tables' = tables \cup TableSet(failAt - 1)
                     /\ last' = Report("setup_database", "db_error", "error")
                     /\ initFailed' = TRUE
                     /\ quitMainLoop' = TRUE
    /\ UNCHANGED <<db, disk, config, clock, events, adminOps, teacherPanel,
                   adminPanel, trees>>

\* The rest of __init__: setup_gui and load_config.  An absent config.json
\* is written with default_config and read back; a JSONDecodeError gives
\* default_config and a warning; any other document becomes self.config as
\* it is; any other exception leaves __init__ and is caught and logged by
\* __main__, which then ends without app.run().
load_config(doc) ==
    /\ pc = "loading"
    /\ IF doc = "unreadable"
       THEN /\ pc' = "exited"
            /\ last' = [Report("__main__", "failed_to_start", "error")
                          EXCEPT !.text = <<doc>>]
            /\ UNCHANGED config
       ELSE /\ pc' = "constructed"
            /\ IF doc = "absent"
               THEN /\ config' = default_config
                    /\ last' = [Report("load_config", "loaded", "none")
                                  EXCEPT !.text = <<doc>>]
               ELSE IF doc = "unparseable"
               THEN /\ config' = default_config
                    /\ last' = [Report("load_config", "default_config",
                                       "warning") EXCEPT !.text = <<doc>>]
               ELSE /\ config' = ConfigOf(doc)
                    /\ last' = [Report("load_config", "loaded", "none")
                                  EXCEPT !.text = <<doc>>]
    /\ UNCHANGED <<conn, tables, db, disk, quitMainLoop, initFailed, clock,
                   events, adminOps, teacherPanel, adminPanel, trees>>

\* run(): root.mainloop() clears Tk's quit flag when it starts and then
\* dispatches callbacks until the flag is set or the root window is gone.
run ==
    /\ pc = "constructed"
    /\ pc' = "mainloop"
    /\ quitMainLoop' = FALSE
    /\ UNCHANGED <<conn, tables, db, disk, config, initFailed, clock, events,
                   adminOps, teacherPanel, adminPanel, trees, last>>

\* The main loop ends (window closed, KeyboardInterrupt): the finally of
\* run() closes the connection, which discards an open transaction.
Exit ==
    /\ pc = "mainloop"
    /\ pc' = "exited"
    /\ conn' = "closed"
    /\ db' = disk
    /\ last' = Report("run", "closed", "info")
    /\ UNCHANGED <<tables, disk, config, quitMainLoop, initFailed, clock,
                   events, adminOps, teacherPanel, adminPanel, trees>>

Dispatching == pc = "mainloop" /\ ~quitMainLoop

Tick ==
    /\ pc # "exited"
    /\ Budget
    /\ clock' \in LaterReads(clock) \ {clock}
    /\ events' = events + 1
    /\ UNCHANGED <<adminOps, pc, conn, tables, db, disk, config, quitMainLoop,
                   initFailed, teacherPanel, adminPanel, trees, last>>

(***************************************************************************)
(* Logins.                                                                 *)
(***************************************************************************)
\* The row that the SELECT of verify_student_login finds for the form.
StudentMatches(d, student_id, name, age, class_name, password) ==
    /\ student_id \in DOMAIN d.students
    /\ d.students[student_id].name = name
    /\ d.students[student_id].age = age
    /\ d.students[student_id].class_name = class_name
    /\ d.students[student_id].password_hash = hash_password(password)

LoginScript_ReplacesEarlierRows(student_id, name, class_name, t1, t2) ==
    << [op |-> "SELECT_STUDENT"],
       [op |-> "DELETE_ATTENDANCE", student_id |-> student_id],
       [op |-> "INSERT_ATTENDANCE",
        row |-> [student_id |-> student_id, name |-> name,
                 class_name |-> class_name, login_time |-> strftime(t2),
                 status |-> "Present"]],
       [op |-> "COMMIT"] >>

LoginScript(student_id, name, class_name, t1, t2) ==
    << [op |-> "SELECT_STUDENT"],
       [op |-> "UPDATE_LAST_LOGIN", student_id |-> student_id,
        time |-> strftime(t1)],
       [op |-> "INSERT_ATTENDANCE",
        row |-> [student_id |-> student_id, name |-> name,
                 class_name |-> class_name, login_time |-> strftime(t2),
                 status |-> "Present"]],
       [op |-> "COMMIT"] >>

verify_student_login(f) ==
    LET student_id == Strip(f.student_id)
        name == Strip(f.name)
        age == Strip(f.age)
        class_name == Strip(f.class_name)
        password == Strip(f.password)
        n == ParseInt(age)
        quiet == UNCHANGED <<db, disk, clock, events>>
    IN
    /\ Dispatching
    /\ IF Empty \in {student_id, name, age, class_name, password}
       THEN /\ last' = Report("verify_student_login", "validation_error", "warning")
            /\ quiet
       ELSE IF ~validate_student_id(student_id)
       THEN /\ last' = Report("verify_student_login", "validation_error", "warning")
            /\ quiet
       ELSE IF ~validate_name(name)
       THEN /\ last' = Report("verify_student_login", "validation_error", "warning")
            /\ quiet
       ELSE IF class_name \notin valid_classes
       THEN /\ last' = Report("verify_student_login", "validation_error", "warning")
            /\ quiet
       ELSE IF ~age_in_range(n)
       THEN /\ last' = Report("verify_student_login", "validation_error", "warning")
            /\ quiet
       ELSE \E t2 \in Reads :
            LET found == StudentMatches(db, student_id, name, n.value,
                                        class_name, password)
                full == LoginScript(student_id, name, class_name, clock, t2)
                script == IF found THEN full ELSE SubSeq(full, 1, 1)
            IN  /\ found => db.att_seq < MaxAtt
                /\ \E e \in Endings(St, script, tables, Budget) :
                     /\ db' = e.st.db
                     /\ disk' = e.st.disk
                     /\ Spend(e, IF Len(script) > 1 /\ e.at \notin {1, 2}
                                 THEN t2 ELSE clock)
                     /\ last' =
                          IF e.error # "none"
                          THEN Report("verify_student_login", "db_error", "error")
                          ELSE IF found
                          THEN Report("verify_student_login", "success", "info")
                          ELSE Report("verify_student_login",
                                      "invalid_credentials", "warning")
    /\ UNCHANGED <<adminOps, pc, conn, tables, config, quitMainLoop, initFailed,
                   teacherPanel, adminPanel, trees>>

TeacherMatches_OrConfiguredPassword(d, teacher_id, name, password) ==
    /\ teacher_id \in DOMAIN d.teachers
    /\ d.teachers[teacher_id].name = name
    /\ \/ d.teachers[teacher_id].password_hash = hash_password(password)
       \/ hash_password(password) = config.teacher_password

TeacherMatches(d, teacher_id, name, password) ==
    /\ teacher_id \in DOMAIN d.teachers
    /\ d.teachers[teacher_id].name = name
    /\ d.teachers[teacher_id].password_hash = hash_password(password)

verify_teacher_login(f) ==
    LET teacher_id == Strip(f.teacher_id)
        name == Strip(f.name)
        password == Strip(f.password)
    IN
    /\ Dispatching
    /\ IF Empty \in {teacher_id, name, password}
       THEN /\ last' = Report("verify_teacher_login", "validation_error", "warning")
            /\ UNCHANGED <<db, disk, events, teacherPanel>>
       ELSE IF ~validate_teacher_id(teacher_id)
       THEN /\ last' = Report("verify_teacher_login", "validation_error", "warning")
            /\ UNCHANGED <<db, disk, events, teacherPanel>>
       ELSE IF ~validate_name(name)
       THEN /\ last' = Report("verify_teacher_login", "validation_error", "warning")
            /\ UNCHANGED <<db, disk, events, teacherPanel>>
       ELSE \E e \in Endings(St, <<[op |-> "SELECT_TEACHER"]>>, tables, Budget) :
            /\ Spend(e, clock)
            /\ db' = e.st.db
            /\ disk' = e.st.disk
            /\ IF e.error # "none"
               THEN /\ last' = Report("verify_teacher_login", "db_error", "error")
                    /\ UNCHANGED teacherPanel
               ELSE IF TeacherMatches(db, teacher_id, name, password)
               THEN /\ last' = Report("verify_teacher_login", "success", "info")
                    /\ teacherPanel' = TRUE
               ELSE /\ last' = Report("verify_teacher_login",
                                      "invalid_credentials", "warning")
                    /\ UNCHANGED teacherPanel
    /\ UNCHANGED <<adminOps, pc, conn, tables, config, quitMainLoop, initFailed, clock,
                   adminPanel, trees>>

verify_admin_login(pw) ==
    LET password == Strip(pw)
    IN
    /\ Dispatching
    /\ IF password = Empty
       THEN /\ last' = Report("verify_admin_login", "validation_error", "warning")
            /\ UNCHANGED adminPanel
       ELSE IF "admin_password" \notin DOMAIN config
       THEN \* self.config["admin_password"] raises KeyError or TypeError,
            \* which nothing catches: Tk prints the traceback to stderr.
            /\ last' = Report("verify_admin_login", "uncaught", "none")
            /\ UNCHANGED adminPanel
       ELSE IF hash_password(password) = config.admin_password
       THEN /\ last' = Report("verify_admin_login", "success", "info")
            /\ adminPanel' = TRUE
       ELSE /\ last' = Report("verify_admin_login", "invalid_credentials",
                              "warning")
            /\ UNCHANGED adminPanel
    /\ UNCHANGED <<adminOps, pc, conn, tables, db, disk, config, quitMainLoop,
                   initFailed, clock, events, teacherPanel, trees>>

(***************************************************************************)
(* Attendance views.                                                       *)
(***************************************************************************)
\* SELECT student_id, name, class_name, login_time, status FROM attendance
\* WHERE login_time LIKE ? ORDER BY login_time DESC, with ? = text + "%".
\* Rows with equal login_time come in an order SQL leaves open.
Column(r) ==
    [student_id |-> r.student_id, name |-> r.name, class_name |-> r.class_name,
     login_time |-> r.login_time, status |-> r.status]

LikeRows(att, text) ==
    {i \in 1..Len(att) : Like(att[i].login_time, text \o <<"%">>)}

OrderByLoginTimeDesc(att, idx) ==
    { [k \in 1..Cardinality(idx) |-> Column(att[p[k]])] :
        p \in { q \in [1..Cardinality(idx) -> idx] :
                  /\ \A a, b \in 1..Cardinality(idx) : a # b => q[a] # q[b]
                  /\ \A a, b \in 1..Cardinality(idx) :
                        a < b => ~StrLess(att[q[a]].login_time,
                                          att[q[b]].login_time) } }

QueryAttendance(att, text) == OrderByLoginTimeDesc(att, LikeRows(att, text))

\* The try block shared by view_attendance and load_history.
ShowAttendance(op, text) ==
    /\ \E e \in Endings(St, <<[op |-> "SELECT_ATTENDANCE"]>>, tables, Budget) :
         /\ Spend(e, clock)
         /\ db' = e.st.db
         /\ disk' = e.st.disk
         /\ IF e.error # "none"
            THEN last' = [Report(op, "db_error", "error") EXCEPT !.text = text]
            ELSE \E rows \in QueryAttendance(db.attendance, text) :
                    last' = [Report(op, "success", "info")
                               EXCEPT !.text = text, !.rows = rows]
    /\ UNCHANGED <<adminOps, pc, conn, tables, config, quitMainLoop, initFailed, clock,
                   teacherPanel, adminPanel, trees>>

\* "View Today's Attendance": on the student form of the main window and on
\* the teacher panel.
view_attendance ==
    /\ Dispatching
    /\ ShowAttendance("view_attendance", strftime_date(clock))

\* load_history of the Attendance History window (teacher panel).
load_history(entry) ==
    /\ Dispatching
    /\ teacherPanel
    /\ ShowAttendance("load_history",
                      IF Strip(entry) # Empty THEN Strip(entry)
                      ELSE strftime_date(clock))

(***************************************************************************)
(* Student management (teacher panel).                                     *)
(***************************************************************************)
\* manage_students: a new window whose tree is filled from SELECT ... FROM
\* students ORDER BY name.
manage_students ==
    /\ Dispatching
    /\ teacherPanel
    /\ BagCardinality(trees) < MaxWin
    /\ \E e \in Endings(St, <<[op |-> "SELECT_STUDENTS"]>>, tables, Budget) :
         /\ Spend(e, clock)
         /\ db' = e.st.db
         /\ disk' = e.st.disk
         /\ IF e.error # "none"
            THEN /\ trees' = trees (+) SetToBag({{}})
                 /\ last' = Report("manage_students", "db_error", "error")
            ELSE /\ trees' = trees (+) SetToBag({DOMAIN db.students})
                 /\ last' = Report("manage_students", "success", "none")
    /\ UNCHANGED <<adminOps, pc, conn, tables, config, quitMainLoop, initFailed,
                   clock, teacherPanel, adminPanel>>

\* The user closes a Manage Students window.
close_manage_window(tree) ==
    /\ Dispatching
    /\ BagIn(tree, trees)
    /\ trees' = trees (-) SetToBag({tree})
    /\ UNCHANGED <<adminOps, pc, conn, tables, db, disk, config, quitMainLoop,
                   initFailed, clock, events, teacherPanel, adminPanel, last>>

DeleteScript(student_id, t) ==
    << [op |-> "DELETE_STUDENT", student_id |-> student_id],
       [op |-> "DELETE_ATTENDANCE", student_id |-> student_id],
       [op |-> "INSERT_LOG",
        row |-> [action |-> "Delete Student",
                 details |-> [text |-> "Deleted student", id |-> student_id],
                 timestamp |-> strftime(t)]],
       [op |-> "COMMIT"] >>

\* delete_student in the window with this tree: no row selected; or the row
\* of student_id selected and the confirmation answered.
delete_student(tree, student_id, selected, confirmed) ==
    /\ Dispatching
    /\ BagIn(tree, trees)
    /\ selected => student_id \in tree
    /\ IF ~selected
       THEN /\ last' = Report("delete_student", "validation_error", "none")
            /\ UNCHANGED <<db, disk, events, adminOps, trees>>
       ELSE IF ~confirmed
       THEN /\ last' = Report("delete_student", "cancelled", "none")
            /\ UNCHANGED <<db, disk, events, adminOps, trees>>
       ELSE /\ adminOps < MaxAdminOps
            /\ adminOps' = adminOps + 1
            /\ \E e \in Endings(St, DeleteScript(student_id, clock), tables,
                                Budget) :
                 /\ Spend(e, clock)
                 /\ db' = e.st.db
                 /\ disk' = e.st.disk
                 /\ IF e.error # "none"
                    THEN /\ last' = Report("delete_student", "db_error", "error")
                         /\ UNCHANGED trees
                    ELSE /\ last' = Report("delete_student", "success", "info")
                         /\ trees' = (trees (-) SetToBag({tree}))
                                        (+) SetToBag({tree \ {student_id}})
    /\ UNCHANGED <<pc, conn, tables, config, quitMainLoop, initFailed, clock,
                   teacherPanel, adminPanel>>

(***************************************************************************)
(* Registration (admin window).                                            *)
(***************************************************************************)
RegisterStudentScript(student_id, name, age, class_name, password, t1, t2) ==
    << [op |-> "INSERT_STUDENT", student_id |-> student_id,
        row |-> [name |-> name, age |-> age, class_name |-> class_name,
                 password_hash |-> hash_password(password),
                 created_at |-> strftime(t1), last_login |-> NULL]],
       [op |-> "INSERT_LOG",
        row |-> [action |-> "Register Student",
                 details |-> [text |-> "Registered student", id |-> student_id],
                 timestamp |-> strftime(t2)]],
       [op |-> "COMMIT"] >>

\* The try / except sqlite3.IntegrityError shared by register_student and
\* register_teacher: any other sqlite3.Error leaves the callback as an
\* uncaught exception, which Tk prints to stderr.
Register(op, script, t2) ==
    /\ adminOps < MaxAdminOps
    /\ adminOps' = adminOps + 1
    /\ \E e \in Endings(St, script, tables, Budget) :
         /\ Spend(e, IF e.at # 1 THEN t2 ELSE clock)
         /\ db' = e.st.db
         /\ disk' = e.st.disk
         /\ last' = IF e.error = "IntegrityError"
                    THEN Report(op, "duplicate_id", "warning")
                    ELSE IF e.error # "none"
                    THEN Report(op, "uncaught", "none")
                    ELSE Report(op, "success", "info")

register_student(f) ==
    LET student_id == Strip(f.student_id)
        name == Strip(f.name)
        age == Strip(f.age)
        class_name == Strip(f.class_name)
        password == Strip(f.password)
        n == ParseInt(age)
        quiet == UNCHANGED <<db, disk, clock, events, adminOps>>
    IN
    /\ Dispatching
    /\ adminPanel
    /\ IF Empty \in {student_id, name, age, class_name, password}
       THEN /\ last' = Report("register_student", "validation_error", "none")
            /\ quiet
       ELSE IF ~validate_student_id(student_id)
       THEN /\ last' = Report("register_student", "validation_error", "none")
            /\ quiet
       ELSE IF ~validate_name(name)
       THEN /\ last' = Report("register_student", "validation_error", "none")
            /\ quiet
       ELSE IF ~age_in_range(n)
       THEN /\ last' = Report("register_student", "validation_error", "none")
            /\ quiet
       ELSE \E t2 \in Reads :
               Register("register_student",
                        RegisterStudentScript(student_id, name, n.value,
                                              class_name, password, clock, t2),
                        t2)
    /\ UNCHANGED <<pc, conn, tables, config, quitMainLoop, initFailed,
                   teacherPanel, adminPanel, trees>>

RegisterTeacherScript(teacher_id, name, password, t1, t2) ==
    << [op |-> "INSERT_TEACHER", teacher_id |-> teacher_id,
        row |-> [name |-> name, password_hash |-> hash_password(password),
                 created_at |-> strftime(t1)]],
       [op |-> "INSERT_LOG",
        row |-> [action |-> "Register Teacher",
                 details |-> [text |-> "Registered teacher", id |-> teacher_id],
                 timestamp |-> strftime(t2)]],
       [op |-> "COMMIT"] >>

register_teacher(f) ==
    LET teacher_id == Strip(f.teacher_id)
        name == Strip(f.name)
        password == Strip(f.password)
        quiet == UNCHANGED <<db, disk, clock, events, adminOps>>
    IN
    /\ Dispatching
    /\ adminPanel
    /\ IF Empty \in {teacher_id, name, password}
       THEN /\ last' = Report("register_teacher", "validation_error", "none")
            /\ quiet
       ELSE IF ~validate_teacher_id(teacher_id)
       THEN /\ last' = Report("register_teacher", "validation_error", "none")
            /\ quiet
       ELSE IF ~validate_name(name)
       THEN /\ last' = Report("register_teacher", "validation_error", "none")
            /\ quiet
       ELSE \E t2 \in Reads :
               Register("register_teacher",
                        RegisterTeacherScript(teacher_id, name, password,
                                              clock, t2),
                        t2)
    /\ UNCHANGED <<pc, conn, tables, config, quitMainLoop, initFailed,
                   teacherPanel, adminPanel, trees>>

(***************************************************************************)
(* The specification.                                                      *)
(***************************************************************************)
Next ==
    \/ Exit
    \/ Tick
    \/ \E f \in LoginForms : verify_student_login(f)
    \/ \E f \in TeacherForms : verify_teacher_login(f)
    \/ \E pw \in AdminPasswords : verify_admin_login(pw)
    \/ view_attendance
    \/ \E entry \in DateTexts : load_history(entry)
    \/ manage_students
    \/ \E tree \in BagToSet(trees) : close_manage_window(tree)
    \/ \E tree \in BagToSet(trees), i \in StudentIdTexts,
          sel \in BOOLEAN, c \in BOOLEAN : delete_student(tree, i, sel, c)
    \/ \E f \in RegisterForms : register_student(f)
    \/ \E f \in RegisterTeacherForms : register_teacher(f)

Spec == Init /\ [][Next]_vars

\* The process from its start: construction, the main loop with the
\* callbacks of the main window and of the admin window, and the exit.
NextStartup ==
    \/ Construct
    \/ \E doc \in ConfigDocs : load_config(doc)
    \/ run
    \/ Exit
    \/ \E f \in LoginForms : verify_student_login(f)
    \/ \E pw \in AdminPasswords : verify_admin_login(pw)
    \/ view_attendance
    \/ \E f \in RegisterForms : register_student(f)

SpecStartup == InitStartup /\ [][NextStartup]_vars

\* The callbacks of the student form and of the admin's student
\* registration, on the database of an earlier run.
NextStudent ==
    \/ Exit
    \/ Tick
    \/ \E f \in LoginForms : verify_student_login(f)
    \/ \E pw \in AdminPasswords : verify_admin_login(pw)
    \/ \E f \in RegisterForms : register_student(f)

SpecStudent == Init /\ [][NextStudent]_vars

\* Texts handed to validate_student_id: a prefix, a run of characters where
\* the digits belong, and what may stand before and after them.
IdPrefixes == {<<"K", "J">>, <<"k", "j">>, <<"T", "J">>, <<"K">>}

IdBodies ==
    { <<"2", "0", "2", "4", "0", "0", "0", "1">>,
      <<"2", "0", "2", "4", "0", "0", "1">>,
      <<"2", "0", "2", "4", "0", "0", "0", "1", "2">>,
      <<"2", "0", "2", "4", "0", "0", "0", "x">>,
      <<"2", "0", "2", "4", "0", "0", "0", ArabicIndicThree>> }

IdLeads == {<<>>, <<" ">>, <<"x">>}

IdTrails == {<<>>, <<" ">>, <<"x">>, <<"\n">>, <<"\n", "\n">>}

IdProbes ==
    { l \o p \o b \o t :
        l \in IdLeads, p \in IdPrefixes, b \in IdBodies, t \in IdTrails }

\* A text is about to be handed to validate_student_id.
InitValidate ==
    /\ pc = "mainloop"
    /\ conn = "open"
    /\ tables = TableSet(Len(AllTables))
    /\ disk = EarlierDb
    /\ db = disk
    /\ config = default_config
    /\ quitMainLoop = FALSE
    /\ initFailed = FALSE
    /\ clock = StartTime
    /\ events = 0
    /\ adminOps = 0
    /\ teacherPanel = FALSE
    /\ adminPanel = FALSE
    /\ trees = EmptyBag
    /\ \E s \in IdProbes :
          last = [Report("input", "none", "none") EXCEPT !.text = s]

\* The call validate_student_id(text) and its result.
CallValidateStudentId ==
    /\ last.op = "input"
    /\ last' = [last EXCEPT
                  !.op = "validate_student_id",
                  !.outcome = IF validate_student_id(last.text)
                              THEN "True" ELSE "False"]
    /\ UNCHANGED <<pc, conn, tables, db, disk, config, quitMainLoop,
                   initFailed, clock, events, adminOps, teacherPanel,
                   adminPanel, trees>>

SpecValidate == InitValidate /\ [][CallValidateStudentId]_vars

\* A teacher has opened "Manage Students" twice: two windows list the
\* student of the earlier run.
InitManage ==
    /\ pc = "mainloop"
    /\ conn = "open"
    /\ tables = TableSet(Len(AllTables))
    /\ disk = EarlierDb
    /\ db = disk
    /\ config = default_config
    /\ quitMainLoop = FALSE
    /\ initFailed = FALSE
    /\ clock = StartTime
    /\ events = 0
    /\ adminOps = 0
    /\ teacherPanel = TRUE
    /\ adminPanel = FALSE
    /\ trees = SetToBag({DOMAIN EarlierDb.students})
                  (+) SetToBag({DOMAIN EarlierDb.students})
    /\ last = Report("manage_students", "success", "none")

\* The callbacks of the two windows, and the student form.
NextManage ==
    \/ Exit
    \/ Tick
    \/ \E f \in LoginForms : verify_student_login(f)
    \/ \E tree \in BagToSet(trees) : close_manage_window(tree)
    \/ \E tree \in BagToSet(trees), i \in StudentIdTexts,
          sel \in BOOLEAN, c \in BOOLEAN : delete_student(tree, i, sel, c)

SpecManage == InitManage /\ [][NextManage]_vars

\* The configurations of the teacher sessions: config.json as load_config
\* writes it, and one that differs from it in teacher_password only.
TeacherConfigs ==
    { default_config,
      [default_config EXCEPT !.teacher_password = hash_password(Pw2)] }

\* The program in its main loop under either configuration, on the
\* database of an earlier run or on a database without any row.
InitTeacher ==
    /\ pc = "mainloop"
    /\ conn = "open"
    /\ tables = TableSet(Len(AllTables))
    /\ disk \in {EarlierDb, EmptyDb}
    /\ db = disk
    /\ config \in TeacherConfigs
    /\ quitMainLoop = FALSE
    /\ initFailed = FALSE
    /\ clock = StartTime
    /\ events = 0
    /\ adminOps = 0
    /\ teacherPanel = FALSE
    /\ adminPanel = FALSE
    /\ trees = EmptyBag
    /\ last = Report("none", "none", "none")

\* The callbacks of the teacher and admin sessions that use the teachers
\* table.
NextTeacher ==
    \/ Exit
    \/ Tick
    \/ \E f \in TeacherForms : verify_teacher_login(f)
    \/ \E pw \in AdminPasswords : verify_admin_login(pw)
    \/ \E f \in RegisterTeacherForms : register_teacher(f)

SpecTeacher == InitTeacher /\ [][NextTeacher]_vars

(***************************************************************************)
(* Properties.                                                             *)
(***************************************************************************)
\* The stored student record that the five fields of a form match.
FormMatchesRecord(d, f) ==
    /\ ParseInt(Strip(f.age)).ok
    /\ StudentMatches(d, Strip(f.student_id), Strip(f.name),
                      ParseInt(Strip(f.age)).value, Strip(f.class_name),
                      Strip(f.password))

\* C1: a student login whose five fields all match a stored record, and that
\* no storage error interrupts, sets that student's last_login and appends
\* exactly one attendance row with status "Present" for that student; a
\* login whose fields match no stored record is rejected (invalid
\* credentials or a validation failure), adds no attendance row and changes
\* no last_login.
C1_LoginContract ==
    [][ (last'.op = "verify_student_login" /\ last'.outcome # "db_error") =>
        \A f \in LoginForms :
          verify_student_login(f) =>
            IF FormMatchesRecord(db, f)
            THEN /\ last'.outcome = "success"
                 /\ Strip(f.student_id) \in DOMAIN db'.students
                 /\ db'.students[Strip(f.student_id)].last_login
                       = strftime(clock)
                 /\ Len(db'.attendance) = Len(db.attendance) + 1
                 /\ SubSeq(db'.attendance, 1, Len(db.attendance))
                       = db.attendance
                 /\ db'.attendance[Len(db'.attendance)].status = "Present"
                 /\ db'.attendance[Len(db'.attendance)].student_id
                       = Strip(f.student_id)
            ELSE /\ last'.outcome \in {"invalid_credentials",
                                       "validation_error"}
                 /\ db' = db
                 /\ disk' = disk ]_vars

\* The submission passes every check register_student makes before it
\* touches the database.
PassesRegistrationChecks(f) ==
    /\ Empty \notin {Strip(f.student_id), Strip(f.name), Strip(f.age),
                     Strip(f.class_name), Strip(f.password)}
    /\ validate_student_id(Strip(f.student_id))
    /\ validate_name(Strip(f.name))
    /\ ParseInt(Strip(f.age)).ok
    /\ ParseInt(Strip(f.age)).value \in 11..18

\* C2: a registration that passes the field checks, that no storage error
\* interrupts and whose student_id is already in the students table ends
\* with the duplicate-id outcome and changes nothing: the existing record
\* keeps its name, age, class, password hash, created_at and last_login,
\* and no admin-log row is added.
C2_DuplicateRejected ==
    [][ last'.op = "register_student" =>
        \A f \in RegisterForms :
          ( /\ last'.outcome # "uncaught"
            /\ PassesRegistrationChecks(f)
            /\ Strip(f.student_id) \in DOMAIN db.students
            /\ register_student(f) )
          => /\ last'.outcome = "duplicate_id"
             /\ db'.students = db.students
             /\ db'.admin_logs = db.admin_logs
             /\ db' = db
             /\ disk' = disk ]_vars

\* C2 witness: a registration has just been rejected as a duplicate while
\* the student of the earlier run is still stored.
C2_Witness ==
    /\ last.op = "register_student"
    /\ last.outcome = "duplicate_id"
    /\ ID1 \in DOMAIN db.students
    /\ db.students[ID1].name = Ann

\* C3: after a confirmed deletion of student X that reports success, X is in
\* no students row, no attendance row has student_id = X, the attendance
\* rows of the other students are as they were, exactly one admin-log row,
\* with action "Delete Student", has been appended, and all of it is
\* committed.
C3_DeleteStudent ==
    [][ (last'.op = "delete_student" /\ last'.outcome = "success") =>
        \A tree \in BagToSet(trees), X \in StudentIdTexts :
          delete_student(tree, X, TRUE, TRUE) =>
             /\ X \notin DOMAIN db'.students
             /\ \A i \in 1..Len(db'.attendance) :
                   db'.attendance[i].student_id # X
             /\ db'.attendance =
                   SelectSeq(db.attendance, LAMBDA r : r.student_id # X)
             /\ Len(db'.admin_logs) = Len(db.admin_logs) + 1
             /\ SubSeq(db'.admin_logs, 1, Len(db.admin_logs)) = db.admin_logs
             /\ db'.admin_logs[Len(db'.admin_logs)].action = "Delete Student"
             /\ disk' = db' ]_vars

\* C3 witness: a deletion has just succeeded and attendance rows were
\* removed by it (more rows were inserted than are left).
C3_Witness ==
    /\ last.op = "delete_student"
    /\ last.outcome = "success"
    /\ db.att_seq > Len(db.attendance)
    /\ ID1 \notin DOMAIN db.students
    /\ \E i \in 1..Len(db.attendance) : db.attendance[i].student_id = ID2

\* The instant a timestamp text denotes, as a number.
InstantOf(ts) ==
    (10 * DigitVal(ts[1]) + DigitVal(ts[2])) * 10 + DigitVal(ts[4])

\* C4: whatever date text d a view has queried, the rows it shows are
\* exactly the attendance rows whose login_time falls on the calendar date
\* d (none when there is no such row), most recent first.
C4_QueryByDate ==
    (last.op \in {"view_attendance", "load_history"}
        /\ last.outcome = "success") =>
      LET att == db.attendance
          on == {i \in 1..Len(att) : DateOf(att[i].login_time) = last.text}
          n == Cardinality(on)
      IN  /\ Len(last.rows) = n
          /\ \E p \in [1..n -> on] :
                /\ \A a, b \in 1..n : a # b => p[a] # p[b]
                /\ \A k \in 1..n : last.rows[k] = Column(att[p[k]])
          /\ \A a, b \in 1..n :
                a < b => InstantOf(last.rows[a].login_time)
                            >= InstantOf(last.rows[b].login_time)

\* C5: every students row has an age from 11 to 18 and a class of the fixed
\* class enumeration.
C5_StudentsValid ==
    \A i \in DOMAIN db.students :
        /\ db.students[i].age \in 11..18
        /\ db.students[i].class_name \in valid_classes

\* C6: a commit persists the writes of the operation that commits and
\* nothing else: whenever the persisted store changes, the connection held
\* no pending write of an earlier, interrupted operation.
C6_AllOrNothing ==
    [][ disk' # disk => db = disk ]_vars

\* C7: in every reachable state the number of persisted admin_logs rows
\* equals the number of persisted admin mutations (student registrations,
\* teacher registrations, student deletions).
C7_LogComplete ==
    Len(disk.admin_logs) = disk.nmut

\* C8: a confirmed deletion of a student id that is not in the students
\* table appends no admin-log row and reports no successful deletion.
C8_DeleteNotFound ==
    [][ last'.op = "delete_student" =>
        \A tree \in BagToSet(trees), X \in StudentIdTexts :
          (delete_student(tree, X, TRUE, TRUE)
              /\ X \notin DOMAIN db.students)
          => /\ last'.outcome # "success"
             /\ db'.admin_logs = db.admin_logs
             /\ disk'.admin_logs = disk.admin_logs ]_vars

\* C9: an operation that meets a storage fault reports the error outcome,
\* writes it to the diagnostic log at error level, and leaves the process
\* in its event loop with the connection open.
C9_StorageErrorReported ==
    [][ (events' > events /\ clock' = clock) =>
          /\ last'.outcome = "db_error"
          /\ last'.logged = "error"
          /\ pc' = "mainloop"
          /\ conn' = "open" ]_vars

\* C10: once storage initialisation has failed at start-up, no login,
\* registration, deletion or query is ever accepted: the last thing the
\* process reports is the start-up failure, its shut-down, or at most the
\* refusal of a form that was filled in wrongly.
C10_FatalInit ==
    initFailed =>
        \/ last.op \in {"setup_database", "load_config", "__main__", "run"}
        \/ last.outcome \in {"validation_error", "cancelled"}

\* C11: on every path by which the process exits, a connection that was
\* opened has been closed: the exited process never leaves self.conn open.
C11_ConnectionClosed ==
    pc = "exited" => conn # "open"

\* C12: after a malformed config.json (unparseable text, a document that is
\* not a key/value object, or an object without admin_password) start-up
\* ends with default_config in effect and a warning logged, and no admin
\* login ever ends in an error instead of an answer.
C12_MalformedConfig ==
    /\ (last.op = "load_config"
          /\ last.text \in {<<"unparseable">>, <<"not_object">>,
                            <<"no_admin_key">>})
       => (config = default_config /\ last.logged = "warning")
    /\ last.op = "verify_admin_login" => last.outcome # "uncaught"

\* C13: every step that inserts or deletes a students row is taken in a
\* session in which an admin login has succeeded before.
C13_AdminOnly ==
    [][ (last'.op \in {"register_student", "delete_student"}
           /\ DOMAIN db'.students # DOMAIN db.students)
        => adminPanel ]_vars

\* C14: a teacher login that no storage error interrupts succeeds exactly
\* when a teachers row has the submitted teacher_id, name and password
\* hash; the configured teacher_password plays no part, so runs that
\* differ only in it answer every attempt alike.
C14_TeacherAuth ==
    [][ (last'.op = "verify_teacher_login" /\ last'.outcome # "db_error") =>
        \A f \in TeacherForms :
          verify_teacher_login(f) =>
            ( last'.outcome = "success"
              <=> \E t \in DOMAIN db.teachers :
                    /\ t = Strip(f.teacher_id)
                    /\ db.teachers[t].name = Strip(f.name)
                    /\ db.teachers[t].password_hash
                          = hash_password(Strip(f.password)) ) ]_vars

\* C14 witness: a teacher login has succeeded under a configuration whose
\* teacher_password is not the hash the teacher logged in with.
C14_Witness ==
    /\ last.op = "verify_teacher_login"
    /\ last.outcome = "success"
    /\ teacherPanel
    /\ config.teacher_password = hash_password(Pw2)
    /\ TID1 \in DOMAIN db.teachers
    /\ db.teachers[TID1].password_hash # config.teacher_password

\* The texts that denote the integer a: its decimal digits, with an
\* optional sign and optional separators.
Numerals(a) ==
    LET tens == DigitChar(a \div 10)
        units == DigitChar(a % 10)
    IN  { <<tens, units>>, <<"+", tens, units>>, <<tens, "_", units>> }

\* C15: in student login and in student registration, with the other
\* fields in order, the age text is accepted exactly when it denotes an
\* integer from 11 to 18; any other age text, numeric or not, ends in the
\* validation failure and leaves the store as it was.
C15_AgeValidation ==
    [][ last'.op \in {"verify_student_login", "register_student"} =>
        \A f \in LoginForms \cup RegisterForms :
          ( /\ Empty \notin {Strip(f.student_id), Strip(f.name),
                             Strip(f.age), Strip(f.class_name),
                             Strip(f.password)}
            /\ validate_student_id(Strip(f.student_id))
            /\ validate_name(Strip(f.name))
            /\ last'.op = "verify_student_login"
                  => Strip(f.class_name) \in valid_classes
            /\ IF last'.op = "verify_student_login"
               THEN verify_student_login(f)
               ELSE register_student(f) )
          => IF \E a \in 11..18 : Strip(f.age) \in Numerals(a)
             THEN last'.outcome # "validation_error"
             ELSE /\ last'.outcome = "validation_error"
                  /\ db' = db
                  /\ disk' = disk ]_vars

\* C15 witness: a registration with the boundary age 18 has been accepted
\* and stored.
C15_Witness ==
    /\ last.op = "register_student"
    /\ last.outcome = "success"
    /\ \E i \in DOMAIN db.students : db.students[i].age = 18

\* C16: validate_student_id(s) is true exactly when s is "KJ" followed by
\* exactly 8 decimal digits and nothing else, before or after.
C16_StudentIdFormat ==
    last.op = "validate_student_id" =>
        ( last.outcome = "True"
          <=> /\ Len(last.text) = 10
              /\ last.text[1] = "K"
              /\ last.text[2] = "J"
              /\ \A i \in 3..10 : last.text[i] \in DecimalDigits )

\* The rows of the attendance table of a database.
AttendanceRows(d) == {d.attendance[i] : i \in 1..Len(d.attendance)}

\* C17: every attendance row has status "Present", and no step modifies or
\* removes an attendance row except delete_student, which removes the rows
\* of the student it deletes.  This holds of the rows the connection sees
\* and of the committed rows; the only other way a row ceases to be seen
\* is the rollback of a row that was never committed.
C17_AttendanceFrame ==
    [][ /\ \A r \in AttendanceRows(db') : r.status = "Present"
        /\ \A r \in AttendanceRows(db) \ AttendanceRows(db') :
              \/ /\ last'.op = "delete_student"
                 /\ r.student_id \notin DOMAIN db'.students
              \/ /\ r \notin AttendanceRows(disk)
                 /\ db' = disk
        /\ \A r \in AttendanceRows(disk) \ AttendanceRows(disk') :
              \/ /\ last'.op = "delete_student"
                 /\ r.student_id \notin DOMAIN db'.students
              \/ r \notin AttendanceRows(db) ]_vars

\* C17 witness: a second student login has succeeded and the row of the
\* first one is still there beside the new row.
C17_Witness ==
    /\ last.op = "verify_student_login"
    /\ last.outcome = "success"
    /\ Len(db.attendance) = 2
    /\ db.attendance[1].id = 1
    /\ db.attendance[2].id = 2
    /\ disk = db

\* C18: whatever way a deletion ends, interrupted or not, once the
\* students row of X is gone no attendance row of X is left: the attendance
\* rows go first.
C18_AttendanceFirst ==
    [][ last'.op = "delete_student" =>
        \A X \in StudentIdTexts :
          (X \in DOMAIN db.students /\ X \notin DOMAIN db'.students)
          => \A r \in AttendanceRows(db') : r.student_id # X ]_vars

\* C19: in every committed state each attendance row names a stored
\* student and carries that student's name and class_name.
C19_AttendanceReferences ==
    \A r \in AttendanceRows(disk) :
        /\ r.student_id \in DOMAIN disk.students
        /\ r.name = disk.students[r.student_id].name
        /\ r.class_name = disk.students[r.student_id].class_name

\* C20: a submission that register_student accepts and whose record is
\* stored logs in with the same five values: unless a storage error
\* interrupts it, the login succeeds and appends the attendance row.
C20_RoundTrip ==
    [][ last'.op = "verify_student_login" =>
        \A f \in RegisterForms :
          ( /\ PassesRegistrationChecks(f)
            /\ FormMatchesRecord(db, f)
            /\ last'.outcome # "db_error"
            /\ verify_student_login(f) )
          => /\ last'.outcome = "success"
             /\ Len(db'.attendance) = Len(db.attendance) + 1
             /\ db'.attendance[Len(db'.attendance)].student_id
                   = Strip(f.student_id) ]_vars

\* C21: in every committed state a student's last_login is null exactly
\* when the student has no attendance row, and otherwise equals the
\* login_time of the student's most recent attendance row.
C21_LastLogin ==
    \A X \in DOMAIN disk.students :
        LET rows == SelectSeq(disk.attendance, LAMBDA r : r.student_id = X)
        IN  IF rows = <<>>
            THEN disk.students[X].last_login = NULL
            ELSE disk.students[X].last_login = rows[Len(rows)].login_time

\* C22: a student id that was deleted and is registered again starts
\* fresh: right after the registration that stores it the student has
\* last_login null and no attendance row, so no date query returns a row
\* recorded for the earlier holder of the id.
C22_FreshStart ==
    [][ (last'.op = "register_student" /\ last'.outcome = "success") =>
        \A X \in DOMAIN db'.students \ DOMAIN db.students :
          /\ db'.students[X].last_login = NULL
          /\ \A r \in AttendanceRows(db') : r.student_id # X
          /\ \A d \in DateTexts \ {Empty} :
               \A rows \in QueryAttendance(db'.attendance, d) :
                 \A i \in 1..Len(rows) : rows[i].student_id # X ]_vars

====
